---- MODULE Spec2Model ----
(***************************************************************************)
(* Klondike Solitaire (src/solitaire.py): the rule and move engine of the   *)
(* Solitaire class, its piles, the drag session and the undo history.       *)
(*                                                                          *)
(* Modelling conventions                                                    *)
(*  - A Card object is the record [suit, rank, face_up].  Screen positions  *)
(*    (x, y, rect) are not state of the model: a pointer position is        *)
(*    represented by what the hit tests of the code resolve it to (the pile *)
(*    and card of get_pile_at / get_card_at for a press, the expanded       *)
(*    rectangles that contain it for a release).                            *)
(*  - A pile is the sequence of its cards, bottom first; the top card is    *)
(*    the last element, as in the Python lists.                             *)
(*  - Python compares Card objects by identity (Card defines no __eq__).    *)
(*    undo() and new_game() build fresh Card objects for every pile, so the *)
(*    objects a drag session still holds are then in no pile any more:      *)
(*    drag_alive records whether the dragged objects are still the objects  *)
(*    the piles hold.                                                       *)
(*  - Every method of the code is an operator from a game record to a game  *)
(*    record; every input event of Solitaire.run is an action.              *)
(***************************************************************************)
EXTENDS Integers, Sequences, FiniteSets, TLC

VARIABLES stock, waste, foundations, tableaus, score, won, move_history,
          dragging, dragged_cards, drag_source, drag_alive,
          lastOp, pre, steps, lead, probe

vars == <<stock, waste, foundations, tableaus, score, won, move_history,
          dragging, dragged_cards, drag_source, drag_alive,
          lastOp, pre, steps, lead, probe>>

(***************************************************************************)
(* Bounds of the exploration                                               *)
(***************************************************************************)
\* number of input events explored after an initial state
MaxSteps == 3
\* number of shuffle outcomes new_game may draw
NumShuffles == 2
\* number of cards under the top card of a pile offered to can_add
MaxBelow == 1

(***************************************************************************)
(* Program constants                                                       *)
(***************************************************************************)
SCORE_TO_FOUNDATION == 10
SCORE_REVEAL_CARD == 5
SCORE_WASTE_TO_TABLEAU == 5
SCORE_FOUNDATION_TO_TABLEAU == -15
SCORE_RECYCLE_WASTE == -20
HISTORY_LIMIT == 100
NUM_TABLEAUS == 7
FOUNDATION_FULL == 13

SUITS == <<"hearts", "diamonds", "clubs", "spades">>
RANKS == <<"A", "2", "3", "4", "5", "6", "7", "8", "9", "10", "J", "Q", "K">>
RANK_VALUES ==
  [r \in {RANKS[i] : i \in 1..Len(RANKS)} |->
     CHOOSE i \in 1..Len(RANKS) : RANKS[i] = r]

(***************************************************************************)
(* Sequence helpers (Python list operations)                               *)
(***************************************************************************)
\* list[:-1]
Front(s) == SubSeq(s, 1, Len(s) - 1)
\* list[-1]
Last(s) == s[Len(s)]
\* list[1:], the effect of list.pop(0)
PopFirst(s) == SubSeq(s, 2, Len(s))

(***************************************************************************)
(* Card                                                                    *)
(***************************************************************************)
Card(suit, rank) == [suit |-> suit, rank |-> rank, face_up |-> FALSE]
color(card) == IF card.suit \in {"hearts", "diamonds"} THEN "red" ELSE "black"
value(card) == RANK_VALUES[card.rank]
with_face(card, up) == [card EXCEPT !.face_up = up]

(***************************************************************************)
(* Deck                                                                    *)
(***************************************************************************)
\* Deck.create_deck: for suit in SUITS: for rank in RANKS: append
create_deck ==
  [i \in 1..(Len(SUITS) * Len(RANKS)) |->
     Card(SUITS[((i - 1) \div Len(RANKS)) + 1], RANKS[((i - 1) % Len(RANKS)) + 1])]

\* One outcome of random.shuffle, as the positions of create_deck's cards in
\* the shuffled list.  Outcome 0 is a deal that can be played to a win;
\* outcome k >= 1 is the permutation i -> (2k+1)*i + k (mod 52).
WinnableOrder ==
  << 9, 46, 45, 18, 35, 8, 34, 17, 7, 16, 6, 33, 44, 43, 15, 32, 31, 5, 4,
     28, 13, 3, 1, 26, 10, 19, 50, 20, 51, 12, 11, 22, 47, 41, 36, 23, 37,
     29, 0, 48, 24, 21, 42, 27, 14, 49, 25, 38, 30, 2, 40, 39 >>
ShuffleOrder(k) ==
  IF k = 0 THEN WinnableOrder
  ELSE [i \in 1..Len(create_deck) |->
          ((2 * k + 1) * (i - 1) + k) % Len(create_deck)]
shuffle(deck, k) == [i \in 1..Len(deck) |-> deck[ShuffleOrder(k)[i] + 1]]
Shuffles == 0..(NumShuffles - 1)

(***************************************************************************)
(* Piles.  A pile reference names one of the 13 Pile objects.              *)
(***************************************************************************)
NoPile == [kind |-> "none", idx |-> 0]
StockRef == [kind |-> "stock", idx |-> 0]
WasteRef == [kind |-> "waste", idx |-> 0]
FoundationRef(i) == [kind |-> "foundation", idx |-> i]
TableauRef(j) == [kind |-> "tableau", idx |-> j]
FoundationIdx == 1..Len(SUITS)
TableauIdx == 1..NUM_TABLEAUS

cards(g, p) ==
  CASE p.kind = "stock" -> g.stock
    [] p.kind = "waste" -> g.waste
    [] p.kind = "foundation" -> g.foundations[p.idx]
    [] p.kind = "tableau" -> g.tableaus[p.idx]
    [] OTHER -> <<>>
set_cards(g, p, cs) ==
  CASE p.kind = "stock" -> [g EXCEPT !.stock = cs]
    [] p.kind = "waste" -> [g EXCEPT !.waste = cs]
    [] p.kind = "foundation" -> [g EXCEPT !.foundations[p.idx] = cs]
    [] p.kind = "tableau" -> [g EXCEPT !.tableaus[p.idx] = cs]
    [] OTHER -> g

\* Pile.add_card / Pile.add_cards / Pile.remove_card
add_card(g, p, card) == set_cards(g, p, Append(cards(g, p), card))
add_cards(g, p, cs) == set_cards(g, p, cards(g, p) \o cs)
remove_card(g, p) ==
  IF cards(g, p) # <<>> THEN set_cards(g, p, Front(cards(g, p))) ELSE g

\* list.index(card) for a Card object: the first position holding that
\* object, 0 when no position does ("card in self.cards" is false).
index_of(cs, card, alive) ==
  IF alive /\ \E i \in 1..Len(cs) : cs[i] = card
  THEN CHOOSE i \in 1..Len(cs) :
         cs[i] = card /\ \A k \in 1..(i - 1) : cs[k] # card
  ELSE 0
\* Pile.remove_cards_from: the cards removed, and the pile afterwards
removed_from(cs, card, alive) ==
  IF index_of(cs, card, alive) > 0
  THEN SubSeq(cs, index_of(cs, card, alive), Len(cs))
  ELSE <<>>
remove_cards_from(g, p, card, alive) ==
  IF index_of(cards(g, p), card, alive) > 0
  THEN set_cards(g, p, SubSeq(cards(g, p), 1, index_of(cards(g, p), card, alive) - 1))
  ELSE g

\* variant: the top card is left as it lies
flip_top_card_leaves_face(g, p) == g

\* TableauPile.flip_top_card
flip_top_card(g, p) ==
  IF cards(g, p) # <<>> /\ ~Last(cards(g, p)).face_up
  THEN set_cards(g, p, [cards(g, p) EXCEPT ![Len(cards(g, p))].face_up = TRUE])
  ELSE g

\* variant: the face-down test on the top card left out
TableauPile_can_add_face_blind(cs, card) ==
  IF cs = <<>> THEN card.rank = "K"
  ELSE IF color(card) = color(Last(cs)) THEN FALSE
  ELSE IF value(card) # value(Last(cs)) - 1 THEN FALSE
  ELSE TRUE

\* variant: the colour test left out
TableauPile_can_add_any_colour(cs, card) ==
  IF cs = <<>> THEN card.rank = "K"
  ELSE IF ~Last(cs).face_up THEN FALSE
  ELSE IF value(card) # value(Last(cs)) - 1 THEN FALSE
  ELSE TRUE

\* TableauPile.can_add
TableauPile_can_add(cs, card) ==
  IF cs = <<>> THEN card.rank = "K"
  ELSE IF ~Last(cs).face_up THEN FALSE
  ELSE IF color(card) = color(Last(cs)) THEN FALSE
  ELSE IF value(card) # value(Last(cs)) - 1 THEN FALSE
  ELSE TRUE

\* variant: the suit test left out
FoundationPile_can_add_any_suit(cs, card) ==
  IF cs = <<>> THEN card.rank = "A"
  ELSE IF value(card) # value(Last(cs)) + 1 THEN FALSE
  ELSE TRUE

\* FoundationPile.can_add
FoundationPile_can_add(cs, card) ==
  IF cs = <<>> THEN card.rank = "A"
  ELSE IF card.suit # Last(cs).suit THEN FALSE
  ELSE IF value(card) # value(Last(cs)) + 1 THEN FALSE
  ELSE TRUE

(***************************************************************************)
(* Solitaire: the game object.  G is the record of its fields.             *)
(***************************************************************************)
G == [stock |-> stock, waste |-> waste, foundations |-> foundations,
      tableaus |-> tableaus, score |-> score, won |-> won,
      move_history |-> move_history, dragging |-> dragging,
      dragged_cards |-> dragged_cards, drag_source |-> drag_source,
      drag_alive |-> drag_alive]

\* Solitaire.__init__ and setup_piles, before the first new_game()
Constructed ==
  [stock |-> <<>>, waste |-> <<>>,
   foundations |-> [i \in FoundationIdx |-> <<>>],
   tableaus |-> [j \in TableauIdx |-> <<>>],
   score |-> 0, won |-> FALSE, move_history |-> <<>>,
   dragging |-> FALSE, dragged_cards |-> <<>>, drag_source |-> NoPile,
   drag_alive |-> FALSE]

\* new_game, lines 397-402: for i in range(7): for j in range(i, 7)
RECURSIVE deal_tableaus(_, _, _, _)
deal_tableaus(deck, tabs, i, j) ==
  IF i >= NUM_TABLEAUS THEN [deck |-> deck, tableaus |-> tabs]
  ELSE IF j >= NUM_TABLEAUS THEN deal_tableaus(deck, tabs, i + 1, i + 1)
  ELSE deal_tableaus(Front(deck),
                     [tabs EXCEPT ![j + 1] = Append(@, with_face(Last(deck), i = j))],
                     i, j + 1)

\* new_game, lines 404-408: while deck.cards
RECURSIVE deal_stock(_, _)
deal_stock(deck, st) ==
  IF deck = <<>> THEN st
  ELSE deal_stock(Front(deck), Append(st, with_face(Last(deck), FALSE)))

\* variant: the foundations are not cleared
new_game_keeps_foundations(g, k) ==
  LET dealt == deal_tableaus(shuffle(create_deck, k),
                             [j \in TableauIdx |-> <<>>], 0, 0)
  IN [g EXCEPT !.won = FALSE, !.score = 0, !.move_history = <<>>,
               !.stock = deal_stock(dealt.deck, <<>>),
               !.waste = <<>>,
               !.tableaus = dealt.tableaus,
               !.drag_alive = FALSE]

\* Solitaire.new_game, with shuffle outcome k
new_game(g, k) ==
  LET dealt == deal_tableaus(shuffle(create_deck, k),
                             [j \in TableauIdx |-> <<>>], 0, 0)
  IN [g EXCEPT !.won = FALSE, !.score = 0, !.move_history = <<>>,
               !.stock = deal_stock(dealt.deck, <<>>),
               !.waste = <<>>,
               !.foundations = [i \in FoundationIdx |-> <<>>],
               !.tableaus = dealt.tableaus,
               !.drag_alive = FALSE]

\* (c.suit, c.rank, c.face_up) and its inverse in undo()
to_tuple(c) == <<c.suit, c.rank, c.face_up>>
from_tuple(t) == with_face(Card(t[1], t[2]), t[3])
tuples_of(cs) == [i \in 1..Len(cs) |-> to_tuple(cs[i])]
cards_of(ts) == [i \in 1..Len(ts) |-> from_tuple(ts[i])]

\* the dict built by save_state
snapshot(g) ==
  [score |-> g.score,
   stock |-> tuples_of(g.stock),
   waste |-> tuples_of(g.waste),
   foundations |-> [i \in FoundationIdx |-> tuples_of(g.foundations[i])],
   tableaus |-> [j \in TableauIdx |-> tuples_of(g.tableaus[j])]]

\* variant: pop() in place of pop(0)
push_history_drops_newest(h, state) ==
  IF Len(Append(h, state)) > HISTORY_LIMIT
  THEN Front(Append(h, state))
  ELSE Append(h, state)

\* the history after append and the limit check of save_state
push_history(h, state) ==
  IF Len(Append(h, state)) > HISTORY_LIMIT
  THEN PopFirst(Append(h, state))
  ELSE Append(h, state)

\* Solitaire.save_state
save_state(g) ==
  [g EXCEPT !.move_history = push_history(g.move_history, snapshot(g))]

\* variant: the score is not restored
undo_keeps_score(g) ==
  IF g.move_history = <<>> THEN g
  ELSE LET state == Last(g.move_history)
       IN [g EXCEPT !.move_history = Front(g.move_history),
                    !.stock = cards_of(state.stock),
                    !.waste = cards_of(state.waste),
                    !.foundations = [i \in FoundationIdx |-> cards_of(state.foundations[i])],
                    !.tableaus = [j \in TableauIdx |-> cards_of(state.tableaus[j])],
                    !.won = FALSE,
                    !.drag_alive = FALSE]

\* variant: an empty history resets the score
undo_empty_resets_score(g) ==
  IF g.move_history = <<>> THEN [g EXCEPT !.score = 0]
  ELSE LET state == Last(g.move_history)
       IN [g EXCEPT !.move_history = Front(g.move_history),
                    !.score = state.score,
                    !.stock = cards_of(state.stock),
                    !.waste = cards_of(state.waste),
                    !.foundations = [i \in FoundationIdx |-> cards_of(state.foundations[i])],
                    !.tableaus = [j \in TableauIdx |-> cards_of(state.tableaus[j])],
                    !.won = FALSE,
                    !.drag_alive = FALSE]

\* Solitaire.undo
undo(g) ==
  IF g.move_history = <<>> THEN g
  ELSE LET state == Last(g.move_history)
       IN [g EXCEPT !.move_history = Front(g.move_history),
                    !.score = state.score,
                    !.stock = cards_of(state.stock),
                    !.waste = cards_of(state.waste),
                    !.foundations = [i \in FoundationIdx |-> cards_of(state.foundations[i])],
                    !.tableaus = [j \in TableauIdx |-> cards_of(state.tableaus[j])],
                    !.won = FALSE,
                    !.drag_alive = FALSE]
\* the value undo() returns
undo_returns(g) == g.move_history # <<>>

Max(a, b) == IF a >= b THEN a ELSE b
\* variant: no floor at 0
add_score_unclamped(g, points) == [g EXCEPT !.score = g.score + points]

\* Solitaire.add_score
add_score(g, points) == [g EXCEPT !.score = Max(0, g.score + points)]

\* variant: the waste goes back bottom card first
recycle_waste_bottom_first(g) ==
  [g EXCEPT !.waste = <<>>,
            !.stock = g.stock \o [i \in 1..Len(g.waste) |-> with_face(g.waste[i], FALSE)]]

\* draw_card_from_stock, lines 483-486: while self.waste.cards
RECURSIVE recycle_waste(_)
recycle_waste(g) ==
  IF g.waste = <<>> THEN g
  ELSE recycle_waste(add_card(remove_card(g, WasteRef), StockRef,
                              with_face(Last(g.waste), FALSE)))

\* variant: the penalty is applied whenever the stock is empty
draw_card_from_stock_always_penalty(g) ==
  LET g1 == save_state(g)
  IN IF g1.stock # <<>>
     THEN add_card(remove_card(g1, StockRef), WasteRef, with_face(Last(g1.stock), TRUE))
     ELSE recycle_waste(add_score(g1, SCORE_RECYCLE_WASTE))

\* variant: the snapshot is taken only when a card will move
draw_card_from_stock_lazy_snapshot(g) ==
  LET g1 == IF g.stock = <<>> /\ g.waste = <<>> THEN g ELSE save_state(g)
  IN IF g1.stock # <<>>
     THEN add_card(remove_card(g1, StockRef), WasteRef, with_face(Last(g1.stock), TRUE))
     ELSE IF g1.waste # <<>>
     THEN recycle_waste(add_score(g1, SCORE_RECYCLE_WASTE))
     ELSE g1

\* Solitaire.draw_card_from_stock
draw_card_from_stock(g) ==
  LET g1 == save_state(g)
  IN IF g1.stock # <<>>
     THEN add_card(remove_card(g1, StockRef), WasteRef, with_face(Last(g1.stock), TRUE))
     ELSE IF g1.waste # <<>>
     THEN recycle_waste(add_score(g1, SCORE_RECYCLE_WASTE))
     ELSE g1

\* Solitaire.check_win
check_win(g) ==
  IF \E i \in FoundationIdx : Len(g.foundations[i]) # FOUNDATION_FULL
  THEN g
  ELSE [g EXCEPT !.won = TRUE]

(***************************************************************************)
(* Drag session                                                            *)
(***************************************************************************)
\* Pile.get_card_at on a pile whose cards all lie at the pile's position
\* (waste, foundation): the topmost face-up card, 0 for None
topmost_face_up(cs) ==
  IF \E i \in 1..Len(cs) : cs[i].face_up
  THEN CHOOSE i \in 1..Len(cs) :
         cs[i].face_up /\ \A k \in (i + 1)..Len(cs) : ~cs[k].face_up
  ELSE 0

\* What get_pile_at(pos) and pile.get_card_at(pos) can resolve a press to:
\* the pile under the pointer and the position in it of the card found
\* (0: no card).  In a tableau every face-up card has a visible strip.
ClickPoints(g) ==
  {[pile |-> NoPile, k |-> 0], [pile |-> StockRef, k |-> 0],
   [pile |-> WasteRef, k |-> topmost_face_up(g.waste)]}
  \cup {[pile |-> FoundationRef(i), k |-> topmost_face_up(g.foundations[i])] :
          i \in FoundationIdx}
  \cup {[pile |-> TableauRef(j), k |-> 0] : j \in TableauIdx}
  \cup UNION {{[pile |-> TableauRef(j), k |-> n] :
                 n \in {m \in 1..Len(g.tableaus[j]) : g.tableaus[j][m].face_up}} :
              j \in TableauIdx}

\* variant: the tableau run is not added back when the drag starts
start_drag_keeps_run_off(g, pile, card) ==
  LET dragged ==
        CASE pile.kind \in {"waste", "foundation"} -> <<Last(cards(g, pile))>>
          [] pile.kind = "tableau" -> removed_from(cards(g, pile), card, TRUE)
          [] OTHER -> <<>>
      g1 == IF pile.kind = "tableau"
            THEN remove_cards_from(g, pile, card, TRUE)
            ELSE g
  IN IF pile.kind \in {"waste", "foundation", "tableau"} /\ dragged # <<>>
     THEN [g1 EXCEPT !.dragging = TRUE, !.dragged_cards = dragged,
                     !.drag_source = pile, !.drag_alive = TRUE]
     ELSE g1

\* Solitaire.start_drag; card is the object get_card_at returned
start_drag(g, pile, card) ==
  LET dragged ==
        CASE pile.kind \in {"waste", "foundation"} -> <<Last(cards(g, pile))>>
          [] pile.kind = "tableau" -> removed_from(cards(g, pile), card, TRUE)
          [] OTHER -> <<>>
      g1 == IF pile.kind = "tableau"
            THEN add_cards(remove_cards_from(g, pile, card, TRUE), pile, dragged)
            ELSE g
  IN IF pile.kind \in {"waste", "foundation", "tableau"} /\ dragged # <<>>
     THEN [g1 EXCEPT !.dragging = TRUE, !.dragged_cards = dragged,
                     !.drag_source = pile, !.drag_alive = TRUE]
     ELSE g1

\* Solitaire.handle_click
handle_click(g, cp) ==
  IF cp.pile = StockRef THEN draw_card_from_stock(g)
  ELSE IF cp.pile # NoPile /\ cards(g, cp.pile) # <<>> /\ cp.k > 0
  THEN start_drag(g, cp.pile, cards(g, cp.pile)[cp.k])
  ELSE g

\* Solitaire.handle_drag moves the dragged cards' screen positions only
handle_drag(g) == g

\* The expanded rectangles of find_drop_target that can contain a release
\* point: none; one foundation; two neighbouring foundations (their expanded
\* rectangles are 120 wide on a pitch of 110); one tableau (120 wide on a
\* pitch of 120, below the foundations' rectangles).
DropPoints ==
  {[fs |-> {}, ts |-> {}]}
  \cup {[fs |-> {i}, ts |-> {}] : i \in FoundationIdx}
  \cup {[fs |-> {i, i + 1}, ts |-> {}] : i \in 1..(Len(SUITS) - 1)}
  \cup {[fs |-> {}, ts |-> {j}] : j \in TableauIdx}

Lowest(S) == CHOOSE i \in S : \A k \in S : i <= k

\* variant: a foundation is tried for a run of any length
find_drop_target_any_run(g, pos) ==
  IF g.dragged_cards = <<>> THEN NoPile
  ELSE LET first_card == g.dragged_cards[1]
           fhit == {i \in pos.fs : FoundationPile_can_add(g.foundations[i], first_card)}
           thit == {j \in pos.ts : TableauPile_can_add(g.tableaus[j], first_card)}
       IN IF fhit # {} THEN FoundationRef(Lowest(fhit))
          ELSE IF thit # {} THEN TableauRef(Lowest(thit))
          ELSE NoPile

\* Solitaire.find_drop_target
find_drop_target(g, pos) ==
  IF g.dragged_cards = <<>> THEN NoPile
  ELSE LET first_card == g.dragged_cards[1]
           fhit == {i \in pos.fs : FoundationPile_can_add(g.foundations[i], first_card)}
           thit == {j \in pos.ts : TableauPile_can_add(g.tableaus[j], first_card)}
       IN IF Len(g.dragged_cards) = 1 /\ fhit # {} THEN FoundationRef(Lowest(fhit))
          ELSE IF thit # {} THEN TableauRef(Lowest(thit))
          ELSE NoPile

\* handle_drop, lines 578-583: take the dragged cards off the source
RECURSIVE remove_n(_, _, _)
remove_n(g, p, n) == IF n = 0 THEN g ELSE remove_n(remove_card(g, p), p, n - 1)
take_from_source(g) ==
  IF g.drag_source.kind = "tableau"
  THEN remove_cards_from(g, g.drag_source, g.dragged_cards[1], g.drag_alive)
  ELSE remove_n(g, g.drag_source, Len(g.dragged_cards))

\* variant: the waste bonus is given for any source
move_score_bonus_any_source(g, drop_target) ==
  IF drop_target.kind = "foundation"
  THEN add_score(g, SCORE_TO_FOUNDATION * Len(g.dragged_cards))
  ELSE IF drop_target.kind = "tableau"
  THEN IF g.drag_source.kind = "foundation"
       THEN add_score(g, SCORE_FOUNDATION_TO_TABLEAU)
       ELSE add_score(g, SCORE_WASTE_TO_TABLEAU)
  ELSE g

\* handle_drop, lines 587-594
move_score(g, drop_target) ==
  IF drop_target.kind = "foundation"
  THEN add_score(g, SCORE_TO_FOUNDATION * Len(g.dragged_cards))
  ELSE IF drop_target.kind = "tableau"
  THEN IF g.drag_source.kind = "waste" THEN add_score(g, SCORE_WASTE_TO_TABLEAU)
       ELSE IF g.drag_source.kind = "foundation"
       THEN add_score(g, SCORE_FOUNDATION_TO_TABLEAU)
       ELSE g
  ELSE g

\* variant: the flip without the bonus
reveal_without_bonus(g, p) ==
  IF p.kind = "tableau" /\ cards(g, p) # <<>> /\ ~Last(cards(g, p)).face_up
  THEN flip_top_card(g, p)
  ELSE g

\* lines 596-600, 679-681, 810-813: flip the tableau's new top, with bonus
reveal(g, p) ==
  IF p.kind = "tableau" /\ cards(g, p) # <<>> /\ ~Last(cards(g, p)).face_up
  THEN add_score(flip_top_card(g, p), SCORE_REVEAL_CARD)
  ELSE g

\* whether handle_drop executes a move for this release point
drop_accepted(g, pos) ==
  /\ g.dragging
  /\ find_drop_target(g, pos) # NoPile
  /\ find_drop_target(g, pos) # g.drag_source

\* Solitaire.handle_drop
handle_drop(g, pos) ==
  IF ~g.dragging THEN g
  ELSE LET drop_target == find_drop_target(g, pos)
           moved ==
             IF drop_target # NoPile /\ drop_target # g.drag_source
             THEN reveal(move_score(add_cards(take_from_source(save_state(g)),
                                              drop_target, g.dragged_cards),
                                    drop_target),
                         g.drag_source)
             ELSE g
       IN check_win([moved EXCEPT !.dragging = FALSE, !.dragged_cards = <<>>,
                                  !.drag_source = NoPile, !.drag_alive = FALSE])

(***************************************************************************)
(* Moves to a foundation without a drag                                    *)
(***************************************************************************)
accepting(g, card) ==
  {i \in FoundationIdx : FoundationPile_can_add(g.foundations[i], card)}

\* remove the pile's top card and add it to the first accepting foundation,
\* with the score and the reveal (lines 664-667, 676-681, 807-813)
to_foundation(g, p) ==
  LET card == Last(cards(g, p))
  IN reveal(add_score(add_card(remove_card(g, p),
                               FoundationRef(Lowest(accepting(g, card))), card),
                      SCORE_TO_FOUNDATION),
            p)

\* Solitaire.run, lines 796-815: the double-click branch
double_click_moves(g, pile) ==
  /\ pile # NoPile
  /\ cards(g, pile) # <<>>
  /\ pile.kind \notin {"stock", "foundation"}
  /\ accepting(g, Last(cards(g, pile))) # {}
\* variant: the move is made without a snapshot
double_click_without_snapshot(g, pile) ==
  IF double_click_moves(g, pile)
  THEN check_win(to_foundation(g, pile))
  ELSE g
double_click(g, pile) ==
  IF double_click_moves(g, pile)
  THEN check_win(to_foundation(save_state(g), pile))
  ELSE g

\* auto_move_to_foundation, lines 659-668: the waste check of one pass
auto_waste(g) ==
  IF g.waste # <<>> /\ accepting(g, Last(g.waste)) # {}
  THEN [g |-> to_foundation(g, WasteRef), moved |-> TRUE]
  ELSE [g |-> g, moved |-> FALSE]

\* auto_move_to_foundation, lines 670-685: for t in self.tableaus
RECURSIVE auto_tableaus(_, _, _)
auto_tableaus(g, j, moved) ==
  IF j > NUM_TABLEAUS THEN [g |-> g, moved |-> moved]
  ELSE IF g.tableaus[j] = <<>> THEN auto_tableaus(g, j + 1, moved)
  ELSE IF accepting(g, Last(g.tableaus[j])) # {}
  THEN [g |-> to_foundation(g, TableauRef(j)), moved |-> TRUE]
  ELSE IF moved THEN [g |-> g, moved |-> moved]
  ELSE auto_tableaus(g, j + 1, moved)

\* variant: one pass only
auto_loop_one_pass(g) ==
  auto_tableaus(auto_waste(g).g, 1, auto_waste(g).moved).g

\* auto_move_to_foundation, lines 655-685: while moved
RECURSIVE auto_loop(_)
auto_loop(g) ==
  LET pass == auto_tableaus(auto_waste(g).g, 1, auto_waste(g).moved)
  IN IF pass.moved THEN auto_loop(pass.g) ELSE pass.g

\* variant: the snapshot is taken after the moves
auto_move_snapshot_after(g) == check_win(save_state(auto_loop(g)))

\* variant: the closing check_win() left out
auto_move_without_check_win(g) == auto_loop(save_state(g))

\* Solitaire.auto_move_to_foundation
auto_move_to_foundation(g) == check_win(auto_loop(save_state(g)))

(***************************************************************************)
(* The event loop Solitaire.run: one action per input event                *)
(*                                                                         *)
(* The exploration is bounded: a behaviour first replays its lead, a fixed *)
(* line of play from the deal (lead holds the events still to replay), and *)
(* then takes at most MaxSteps events of any kind.                         *)
(***************************************************************************)
\* whether event ev may happen now: it is the lead's next event, or the
\* lead is over and the budget is not used up
May(ev) ==
  IF lead # <<>> THEN Head(lead)[1] = ev ELSE steps < MaxSteps
\* a lead's event may name the point pressed or released (a third component)
Chosen(point) ==
  IF lead = <<>> THEN TRUE
  ELSE IF Len(Head(lead)) = 2 THEN TRUE
  ELSE Head(lead)[3] = point
lead_after(l) ==
  IF l = <<>> THEN l
  ELSE IF Head(l)[2] > 1 THEN <<<<Head(l)[1], Head(l)[2] - 1>>>> \o Tail(l)
  ELSE Tail(l)

\* what pre keeps of the game before an event: the piles, the score, the
\* win flag, the history's depth, and the handler branch that led there
before(g, op) ==
  [stock |-> g.stock, waste |-> g.waste, foundations |-> g.foundations,
   tableaus |-> g.tableaus, score |-> g.score, won |-> g.won,
   depth |-> Len(g.move_history), op |-> op]

\* the game after event ev; lastOp names the handler branch that ran.  An
\* event that leaves the game object as it was ends the explored behaviour:
\* what can follow it is what can follow without it.
Becomes(g, op, ev) ==
  /\ May(ev)
  /\ lead' = lead_after(lead)
  /\ steps' = IF lead # <<>> THEN steps
             ELSE IF g = G THEN MaxSteps
             ELSE steps + 1
  /\ stock' = g.stock
  /\ waste' = g.waste
  /\ foundations' = g.foundations
  /\ tableaus' = g.tableaus
  /\ score' = g.score
  /\ won' = g.won
  /\ move_history' = g.move_history
  /\ dragging' = g.dragging
  /\ dragged_cards' = g.dragged_cards
  /\ drag_source' = g.drag_source
  /\ drag_alive' = g.drag_alive
  /\ lastOp' = op
  /\ pre' = before(G, lastOp)
  /\ probe' = probe

\* KEYDOWN K_n
KeyNewGame == \E k \in Shuffles : Becomes(new_game(G, k), "new_game", "key_n")

\* KEYDOWN K_u, or K_z with ctrl
KeyUndo ==
  Becomes(undo(G), IF undo_returns(G) THEN "undo" ELSE "undo_empty", "key_u")

\* MOUSEBUTTONDOWN on the undo button; the button is up, so no drag is on
ClickUndoButton ==
  /\ ~dragging
  /\ Becomes(undo(G), IF undo_returns(G) THEN "undo" ELSE "undo_empty", "undo_button")

\* KEYDOWN K_a
KeyAutoComplete == Becomes(auto_move_to_foundation(G), "auto", "key_a")

\* the branch of handle_click a press takes
click_op(g, cp) ==
  IF cp.pile = StockRef
  THEN IF g.stock # <<>> THEN "draw"
       ELSE IF g.waste # <<>> THEN "recycle"
       ELSE "draw_none"
  ELSE IF handle_click(g, cp).dragging THEN "start_drag"
  ELSE "click_none"

\* MOUSEBUTTONDOWN, not a double click: handle_click
MouseDown ==
  /\ ~dragging
  /\ \E cp \in ClickPoints(G) :
       /\ Chosen(cp)
       /\ Becomes(handle_click(G, cp), click_op(G, cp),
                  IF cp.pile = StockRef THEN "stock_click" ELSE "press")

\* MOUSEBUTTONDOWN within 300 ms and 10 px of the previous one
MouseDownDouble ==
  /\ ~dragging
  /\ \E pile \in {cp.pile : cp \in ClickPoints(G)} :
       Becomes(double_click(G, pile),
               IF double_click_moves(G, pile) THEN "double_move" ELSE "double_none",
               "double_click")

\* MOUSEMOTION while dragging
MouseMotion ==
  /\ dragging
  /\ Becomes(handle_drag(G), "drag", "motion")

\* MOUSEBUTTONUP: handle_drop
MouseUp ==
  \E pos \in DropPoints :
    /\ Chosen(pos)
    /\ Becomes(handle_drop(G, pos),
               IF ~dragging THEN "drop_idle"
               ELSE IF drop_accepted(G, pos) THEN "drop_move"
               ELSE "drop_reject",
               "release")

Next ==
  \/ KeyNewGame
  \/ KeyUndo
  \/ ClickUndoButton
  \/ KeyAutoComplete
  \/ MouseDown
  \/ MouseDownDouble
  \/ MouseMotion
  \/ MouseUp

\* The leads: none; every stock card drawn; stock clicks to one snapshot
\* short of the history limit; the stock drawn and auto-complete (for
\* shuffle outcome 0 that moves all 52 cards to the foundations); the same
\* followed by stock clicks that fill the history and an undo of each; the
\* top card of tableau 2 moved onto tableau 4 and auto-complete (for shuffle
\* outcome 0 that leaves a run of two cards whose first card a foundation
\* accepts); the card of tableau 1 moved onto tableau 2 (for shuffle outcome
\* 0 that builds a run of two cards another tableau accepts).
DrawAll(k) == <<"stock_click", Len(new_game(Constructed, k).stock)>>
Leads(k) ==
  IF k = 0
  THEN {<<>>,
        <<DrawAll(k)>>,
        <<<<"stock_click", HISTORY_LIMIT - 1>>>>,
        <<DrawAll(k), <<"key_a", 1>>>>,
        <<DrawAll(k), <<"key_a", 1>>, <<"stock_click", HISTORY_LIMIT>>,
          <<"key_u", HISTORY_LIMIT>>>>,
        <<<<"press", 1, [pile |-> TableauRef(2), k |-> 2]>>,
          <<"release", 1, [fs |-> {}, ts |-> {4}]>>,
          <<"key_a", 1>>>>,
        <<<<"press", 1, [pile |-> TableauRef(1), k |-> 1]>>,
          <<"release", 1, [fs |-> {}, ts |-> {2}]>>>>}
  ELSE {<<>>}

\* probe holds one call of a pile's can_add: the pile's cards, the card
\* offered and, once the call is done, its result.  The game makes no use
\* of it.
NoProbe ==
  [kind |-> "none", pile |-> <<>>, card |-> Card("hearts", "A"),
   done |-> FALSE, result |-> FALSE]

\* Solitaire.__init__: setup_piles, then new_game
Init ==
  \E k \in Shuffles :
    /\ lead \in Leads(k)
    /\ steps = 0
    /\ stock = new_game(Constructed, k).stock
    /\ waste = new_game(Constructed, k).waste
    /\ foundations = new_game(Constructed, k).foundations
    /\ tableaus = new_game(Constructed, k).tableaus
    /\ score = new_game(Constructed, k).score
    /\ won = new_game(Constructed, k).won
    /\ move_history = new_game(Constructed, k).move_history
    /\ dragging = Constructed.dragging
    /\ dragged_cards = Constructed.dragged_cards
    /\ drag_source = Constructed.drag_source
    /\ drag_alive = Constructed.drag_alive
    /\ lastOp = "new_game"
    /\ pre = before(Constructed, "init")
    /\ probe = NoProbe

Spec == Init /\ [][Next]_vars

(***************************************************************************)
(* The piles' rules on their own: can_add called on any top card, over up  *)
(* to MaxBelow other cards or on an empty pile, with any card offered.      *)
(***************************************************************************)
AnyCard == {with_face(create_deck[i], up) : i \in 1..Len(create_deck), up \in BOOLEAN}
Below(n) == [i \in 1..n |-> create_deck[i]]
AnyPile ==
  {<<>>} \cup {Append(Below(n), top) : n \in 0..MaxBelow, top \in AnyCard}

InitRules ==
  /\ probe \in [kind : {"foundation", "tableau"}, pile : AnyPile, card : AnyCard,
                done : {FALSE}, result : {FALSE}]
  /\ steps = 0
  /\ lead = <<>>
  /\ stock = Constructed.stock
  /\ waste = Constructed.waste
  /\ foundations = Constructed.foundations
  /\ tableaus = Constructed.tableaus
  /\ score = Constructed.score
  /\ won = Constructed.won
  /\ move_history = Constructed.move_history
  /\ dragging = Constructed.dragging
  /\ dragged_cards = Constructed.dragged_cards
  /\ drag_source = Constructed.drag_source
  /\ drag_alive = Constructed.drag_alive
  /\ lastOp = "init"
  /\ pre = before(Constructed, "init")

GameUnchanged ==
  UNCHANGED <<stock, waste, foundations, tableaus, score, won, move_history,
              dragging, dragged_cards, drag_source, drag_alive,
              lastOp, pre, steps, lead>>

\* f.can_add(card)
CallFoundationCanAdd ==
  /\ probe.kind = "foundation"
  /\ ~probe.done
  /\ probe' = [probe EXCEPT !.done = TRUE,
                            !.result = FoundationPile_can_add(probe.pile, probe.card)]
  /\ GameUnchanged

\* t.can_add(card)
CallTableauCanAdd ==
  /\ probe.kind = "tableau"
  /\ ~probe.done
  /\ probe' = [probe EXCEPT !.done = TRUE,
                            !.result = TableauPile_can_add(probe.pile, probe.card)]
  /\ GameUnchanged

NextRules == CallFoundationCanAdd \/ CallTableauCanAdd

SpecRules == InitRules /\ [][NextRules]_vars

(***************************************************************************)
(* Properties                                                              *)
(***************************************************************************)
SuitSet == {SUITS[i] : i \in 1..Len(SUITS)}
RankSet == {RANKS[i] : i \in 1..Len(RANKS)}
\* the number of places of a pile that hold the card (suit, rank)
Count(cs, suit, rank) ==
  Cardinality({i \in 1..Len(cs) : cs[i].suit = suit /\ cs[i].rank = rank})
RECURSIVE SumOver(_, _, _, _)
SumOver(piles, n, suit, rank) ==
  IF n = 0 THEN 0
  ELSE Count(piles[n], suit, rank) + SumOver(piles, n - 1, suit, rank)
Occurrences(suit, rank) ==
  Count(stock, suit, rank) + Count(waste, suit, rank)
  + SumOver(foundations, Len(foundations), suit, rank)
  + SumOver(tableaus, Len(tableaus), suit, rank)

\* C1: in every reachable state every (suit, rank) card of the deck is in
\* exactly one place of the stock, the waste, the foundations and the
\* tableaus: no card is duplicated and none is lost.
C1_EveryCardOnce ==
  \A suit \in SuitSet, rank \in RankSet : Occurrences(suit, rank) = 1

\* the handler branches that execute one of the operations of C2
SnapshotOps == {"drop_move", "double_move", "draw", "recycle"}
\* the handler branches that call save_state (once each)
PushOps == SnapshotOps \cup {"draw_none", "auto"}
Complete == \A i \in FoundationIdx : Len(foundations[i]) = FOUNDATION_FULL

\* C2: an executed drag/drop move, a double-click move, a stock draw or a
\* recycle followed at once by undo() leaves the stock, the waste, every
\* foundation, every tableau and the score exactly as they were before the
\* operation (pre, during the undo step, is the game before the operation).
C2_UndoRestores ==
  [][(lastOp \in SnapshotOps /\ lastOp' = "undo")
       => /\ stock' = pre.stock
          /\ waste' = pre.waste
          /\ foundations' = pre.foundations
          /\ tableaus' = pre.tableaus
          /\ score' = pre.score]_vars
\* an undo right after a recycle that was pushed onto a full history and
\* whose penalty was clamped: the score comes back from 0
C2_Witness ==
  /\ lastOp = "undo"
  /\ pre.op = "recycle"
  /\ pre.depth = HISTORY_LIMIT
  /\ pre.score = 0
  /\ score > 0

\* C3: the score is a non-negative integer in every reachable state.
C3_ScoreNonNegative == score \in Nat
\* a recycle whose penalty exceeded the score
C3_Witness ==
  /\ lastOp = "recycle"
  /\ pre.score > 0
  /\ pre.score + SCORE_RECYCLE_WASTE < 0
  /\ score = 0

\* C4: in every reachable state the win flag is true only if each of the 4
\* foundations holds exactly 13 cards.
C4_WonOnlyIfComplete == won => Complete

\* C5: right after every undo(), whether it popped a snapshot or found the
\* history empty, and right after every new_game(), the win flag is false.
C5_NotWonAfterUndoOrNewGame ==
  lastOp \in {"undo", "undo_empty", "new_game"} => ~won

\* C6: when a release that ends a drag, a double-click move or an
\* auto-complete finishes with all 4 foundations holding 13 cards, the win
\* flag is true at the end of that operation.
C6_WinDetected ==
  (lastOp \in {"drop_move", "drop_reject", "double_move", "auto"} /\ Complete)
    => won
\* an auto-complete that filled the foundations and set the flag
C6_Witness ==
  /\ lastOp = "auto"
  /\ Complete
  /\ won
  /\ ~pre.won
  /\ \E i \in FoundationIdx : Len(pre.foundations[i]) < FOUNDATION_FULL

\* C7: after new_game(), from whatever state: tableau j (1-based) holds j
\* cards, only the topmost face-up; the stock holds the other 24 cards, all
\* face-down; waste and foundations are empty; the 52 cards are the 52
\* (suit, rank) pairs once each; score 0, history empty, win flag false.
C7_NewGameDeal ==
  lastOp = "new_game" =>
    /\ \A j \in TableauIdx :
         /\ Len(tableaus[j]) = j
         /\ \A m \in 1..Len(tableaus[j]) : tableaus[j][m].face_up = (m = j)
    /\ Len(stock) = Len(create_deck) - (NUM_TABLEAUS * (NUM_TABLEAUS + 1)) \div 2
    /\ \A m \in 1..Len(stock) : ~stock[m].face_up
    /\ waste = <<>>
    /\ \A i \in FoundationIdx : foundations[i] = <<>>
    /\ \A suit \in SuitSet, rank \in RankSet : Occurrences(suit, rank) = 1
    /\ score = 0
    /\ move_history = <<>>
    /\ ~won
\* a new game started from a game with moves played and points scored
C7_Witness ==
  /\ lastOp = "new_game"
  /\ pre.depth > 0
  /\ pre.score > 0
  /\ \E i \in FoundationIdx : pre.foundations[i] # <<>>

\* C10: the history never holds more than 100 snapshots; a push onto a
\* full history discards the oldest snapshot, keeps the other 99 in order
\* and puts the snapshot of the game before the operation last.
C10_HistoryLimit ==
  /\ [](Len(move_history) <= HISTORY_LIMIT)
  /\ [][(Len(move_history) = HISTORY_LIMIT /\ lastOp' \in PushOps)
          => /\ Len(move_history') = HISTORY_LIMIT
             /\ Front(move_history') = PopFirst(move_history)
             /\ Last(move_history') = snapshot(G)]_vars
\* a snapshot was pushed onto a full history
C10_Witness ==
  /\ lastOp \in PushOps
  /\ pre.depth = HISTORY_LIMIT
  /\ Len(move_history) = HISTORY_LIMIT

\* C8: FoundationPile.can_add(c) is true exactly when the pile is empty and
\* c is an Ace, or the pile is not empty and c has the suit of its top card
\* and the top card's value plus one; so never on top of a King.
C8_FoundationRule ==
  (probe.kind = "foundation" /\ probe.done) =>
    /\ probe.result =
         \/ probe.pile = <<>> /\ probe.card.rank = "A"
         \/ /\ probe.pile # <<>>
            /\ probe.card.suit = Last(probe.pile).suit
            /\ value(probe.card) = value(Last(probe.pile)) + 1
    /\ (probe.pile # <<>> /\ Last(probe.pile).rank = "K") => ~probe.result
\* a card accepted on a non-empty foundation
C8_Witness ==
  /\ probe.kind = "foundation"
  /\ probe.done
  /\ probe.pile # <<>>
  /\ probe.result

\* C9: TableauPile.can_add(c) is true exactly when the pile is empty and c
\* is a King, or the pile is not empty, its top card is face-up, and c has
\* the other colour and the top card's value minus one; it is false
\* whenever the top card is face-down.
C9_TableauRule ==
  (probe.kind = "tableau" /\ probe.done) =>
    /\ probe.result =
         \/ probe.pile = <<>> /\ probe.card.rank = "K"
         \/ /\ probe.pile # <<>>
            /\ Last(probe.pile).face_up
            /\ color(probe.card) # color(Last(probe.pile))
            /\ value(probe.card) = value(Last(probe.pile)) - 1
    /\ (probe.pile # <<>> /\ ~Last(probe.pile).face_up) => ~probe.result
\* a card accepted on a face-up top card
C9_Witness ==
  /\ probe.kind = "tableau"
  /\ probe.done
  /\ probe.pile # <<>>
  /\ Last(probe.pile).face_up
  /\ probe.result


\* C11: undo() on an empty history returns false and leaves every pile, the
\* score and the history as they were; undo() on a non-empty history
\* returns true and removes exactly the newest snapshot from the history.
C11_UndoEmptyOrPop ==
  [][(lastOp' \in {"undo", "undo_empty"}) =>
       IF move_history = <<>>
       THEN /\ lastOp' = "undo_empty"
            /\ stock' = stock
            /\ waste' = waste
            /\ foundations' = foundations
            /\ tableaus' = tableaus
            /\ score' = score
            /\ move_history' = move_history
       ELSE /\ lastOp' = "undo"
            /\ Len(move_history') = Len(move_history) - 1
            /\ move_history' = Front(move_history)]_vars
\* undo() found the history empty in a game with cards played and points
C11_Witness ==
  /\ lastOp = "undo_empty"
  /\ pre.depth = 0
  /\ pre.score > 0
  /\ score = pre.score
  /\ \E i \in FoundationIdx : foundations[i] # <<>>

\* C12: a release that finds no accepting destination leaves every pile, the
\* score, the win flag and the undo history as they were before the release
\* and, when the press came right before it, as they were before the press;
\* the drag session is discarded.
C12_RejectedDropChangesNothing ==
  [][(lastOp' = "drop_reject") =>
       /\ stock' = stock
       /\ waste' = waste
       /\ foundations' = foundations
       /\ tableaus' = tableaus
       /\ score' = score
       /\ won' = won
       /\ move_history' = move_history
       /\ ~dragging'
       /\ dragged_cards' = <<>>
       /\ drag_source' = NoPile
       /\ (lastOp = "start_drag" =>
             /\ stock' = pre.stock
             /\ waste' = pre.waste
             /\ foundations' = pre.foundations
             /\ tableaus' = pre.tableaus
             /\ score' = pre.score
             /\ won' = pre.won
             /\ Len(move_history') = pre.depth)]_vars

Reverse(s) == [i \in 1..Len(s) |-> s[Len(s) + 1 - i]]
FaceDown(cs) == [i \in 1..Len(cs) |-> [cs[i] EXCEPT !.face_up = FALSE]]
\* the cards still to come in draw order, last first: the stock from its
\* bottom, then the waste from its top
DrawCycle(st, wa) == FaceDown(st) \o Reverse(FaceDown(wa))

\* C13: a draw moves the stock's top card face-up onto the waste without
\* touching the score, so the cards in draw order stay the same; the recycle
\* empties the waste and leaves in the stock the drawn cards, face-down, in
\* the order they had in the stock before they were drawn, and sets the
\* score to max(0, score - 20).  After the whole stock of a deal was drawn
\* and recycled the stock is the stock of the deal.
C13_RecyclePreservesOrder ==
  /\ [][/\ (lastOp' = "draw" =>
              /\ stock' = Front(stock)
              /\ waste' = Append(waste, [Last(stock) EXCEPT !.face_up = TRUE])
              /\ DrawCycle(stock', waste') = DrawCycle(stock, waste)
              /\ score' = score)
         /\ (lastOp' = "recycle" =>
              /\ waste' = <<>>
              /\ stock' = DrawCycle(stock, waste)
              /\ \A m \in 1..Len(stock') : ~stock'[m].face_up
              /\ score' = Max(0, score + SCORE_RECYCLE_WASTE))]_vars
  /\ []((lastOp = "recycle" /\ Len(stock) = Len(move_history) - 1
          /\ \E k \in Shuffles : tableaus = new_game(Constructed, k).tableaus)
         => \E k \in Shuffles : stock = new_game(Constructed, k).stock)
\* the recycle after every card of the deal's stock was drawn
C13_Witness ==
  /\ lastOp = "recycle"
  /\ pre.stock = <<>>
  /\ Len(pre.waste) = Len(create_deck) - (NUM_TABLEAUS * (NUM_TABLEAUS + 1)) \div 2
  /\ waste = <<>>
  /\ stock = Reverse(FaceDown(pre.waste))
  /\ \E k \in Shuffles : stock = new_game(Constructed, k).stock

\* C14: a stock click with the stock and the waste both empty applies no
\* penalty and moves no card: every pile, the score and the win flag are
\* as they were.
C14_EmptyDrawIsNoOp ==
  [][(lastOp' = "draw_none") =>
       /\ stock = <<>>
       /\ waste = <<>>
       /\ stock' = stock
       /\ waste' = waste
       /\ foundations' = foundations
       /\ tableaus' = tableaus
       /\ score' = score
       /\ won' = won]_vars
\* such a click in a won game with points to lose
C14_Witness ==
  /\ lastOp = "draw_none"
  /\ pre.score >= -SCORE_RECYCLE_WASTE
  /\ score = pre.score
  /\ pre.won
  /\ won

\* the snapshot save_state pushes for the game as it is now
Pushed ==
  [score |-> score,
   stock |-> [m \in 1..Len(stock) |->
                <<stock[m].suit, stock[m].rank, stock[m].face_up>>],
   waste |-> [m \in 1..Len(waste) |->
                <<waste[m].suit, waste[m].rank, waste[m].face_up>>],
   foundations |-> [i \in FoundationIdx |-> [m \in 1..Len(foundations[i]) |->
                <<foundations[i][m].suit, foundations[i][m].rank, foundations[i][m].face_up>>]],
   tableaus |-> [j \in TableauIdx |-> [m \in 1..Len(tableaus[j]) |->
                <<tableaus[j][m].suit, tableaus[j][m].rank, tableaus[j][m].face_up>>]]]
\* the history after exactly one push of that snapshot
OnePush(h) ==
  IF Len(h) < HISTORY_LIMIT THEN Append(h, Pushed)
  ELSE Append(SubSeq(h, 2, Len(h)), Pushed)

\* C17: every stock click pushes exactly one snapshot of the game before
\* the click, whether it draws, recycles or finds both piles empty: the
\* history grows by one, or stays at 100 with its oldest snapshot gone.
C17_DrawAlwaysSnapshots ==
  [][(lastOp' \in {"draw", "recycle", "draw_none"}) =>
       /\ move_history' = OnePush(move_history)
       /\ lastOp' = (IF stock # <<>> THEN "draw"
                     ELSE IF waste # <<>> THEN "recycle" ELSE "draw_none")]_vars
\* both piles empty and the history full: the depth stays at the limit
C17_Witness ==
  /\ lastOp = "draw_none"
  /\ pre.depth = HISTORY_LIMIT
  /\ Len(move_history) = HISTORY_LIMIT
  /\ Last(move_history) = Pushed

\* the kind of the pile a step put cards on
DestKind ==
  IF \E i \in FoundationIdx : Len(foundations'[i]) > Len(foundations[i])
  THEN "foundation"
  ELSE IF \E j \in TableauIdx : Len(tableaus'[j]) > Len(tableaus[j])
  THEN "tableau"
  ELSE "none"
\* whether the card a step left on top of tableau j lay face-down before it
LeftFaceDown(j) ==
  /\ tableaus'[j] # <<>>
  /\ Len(tableaus'[j]) <= Len(tableaus[j])
  /\ ~tableaus[j][Len(tableaus'[j])].face_up
\* the reveal bonus of an executed drop
DropBonus ==
  IF drag_source.kind = "tableau" /\ LeftFaceDown(drag_source.idx)
  THEN SCORE_REVEAL_CARD ELSE 0

\* C15: the base score change of an executed drop follows from the kinds of
\* its source and destination alone: +10 onto a foundation (always one card),
\* +5 waste to tableau, -15 foundation to tableau with the result floored
\* at 0, 0 tableau to tableau; the reveal bonus is the only other change.
C15_MoveScoreByKinds ==
  [][(lastOp' = "drop_move") =>
       /\ drag_source.kind \in {"waste", "tableau", "foundation"}
       /\ DestKind \in {"foundation", "tableau"}
       /\ (DestKind = "foundation" =>
             /\ Len(dragged_cards) = 1
             /\ score' = score + 10 + DropBonus)
       /\ (DestKind = "tableau" /\ drag_source.kind = "waste" =>
             score' = score + 5)
       /\ (DestKind = "tableau" /\ drag_source.kind = "foundation" =>
             score' = Max(0, score - 15))
       /\ (DestKind = "tableau" /\ drag_source.kind = "tableau" =>
             score' = score + DropBonus)]_vars
\* a card dragged from a foundation to a tableau with fewer than 15 points
C15_Witness ==
  /\ lastOp = "drop_move"
  /\ pre.op = "start_drag"
  /\ \E i \in FoundationIdx : Len(foundations[i]) < Len(pre.foundations[i])
  /\ \E j \in TableauIdx : Len(tableaus[j]) > Len(pre.tableaus[j])
  /\ pre.score \in 1..14
  /\ score = 0

RECURSIVE SeqSum(_)
SeqSum(s) == IF s = <<>> THEN 0 ELSE s[1] + SeqSum(SubSeq(s, 2, Len(s)))
\* the number of cards a step put on the foundations
CardsToFoundations ==
  SeqSum([i \in FoundationIdx |-> Len(foundations'[i]) - Len(foundations[i])])
\* the number of cards a step took off the waste and the tableaus
CardsTaken ==
  (Len(waste) - Len(waste'))
  + SeqSum([j \in TableauIdx |-> Len(tableaus[j]) - Len(tableaus'[j])])
\* the number of face-down tableau cards a step uncovered: those that lay
\* right under a card it took
CardsUncovered ==
  SeqSum([j \in TableauIdx |->
            Cardinality({m \in 1..(Len(tableaus[j]) - 1) :
                           m >= Len(tableaus'[j]) /\ ~tableaus[j][m].face_up})])

\* the base score change of an executed drop (C15)
DropBase ==
  IF DestKind = "foundation" THEN 10
  ELSE IF drag_source.kind = "waste" THEN 5
  ELSE IF drag_source.kind = "foundation" THEN -15
  ELSE 0
\* tableau j after a step took cards off it: what is left, with the card now
\* on top turned face-up when it lay face-down, and no other card touched
LeftOf(j) ==
  IF LeftFaceDown(j)
  THEN [SubSeq(tableaus[j], 1, Len(tableaus'[j])) EXCEPT ![Len(tableaus'[j])].face_up = TRUE]
  ELSE SubSeq(tableaus[j], 1, Len(tableaus'[j]))
\* no card that stays in its pile is flipped, the tableaus in J apart
OthersKeepFaces(J) ==
  /\ \A m \in 1..Len(stock') : m <= Len(stock) => stock'[m] = stock[m]
  /\ \A m \in 1..Len(waste') : m <= Len(waste) => waste'[m] = waste[m]
  /\ \A i \in FoundationIdx : \A m \in 1..Len(foundations'[i]) :
        m <= Len(foundations[i]) => foundations'[i][m] = foundations[i][m]
  /\ \A n \in TableauIdx \ J : \A m \in 1..Len(tableaus'[n]) :
        m <= Len(tableaus[n]) => tableaus'[n][m] = tableaus[n][m]

\* C16: when an executed drop or double-click move leaves a face-down card
\* on top of the tableau it took cards from, that card and no other is
\* turned face-up and the score gains 5 on top of the base change; when the
\* card left on top is face-up, the tableau is left empty or the source is
\* no tableau, no card is turned and no bonus is given.  After an
\* auto-complete every tableau is what is left of it, with only the card
\* left on top turned if it lay face-down, and the score holds 5 for every
\* face-down card its sub-moves uncovered.
C16_RevealOnTableauSource ==
  [][/\ (lastOp' = "drop_move" =>
          IF drag_source.kind = "tableau"
          THEN /\ tableaus'[drag_source.idx] = LeftOf(drag_source.idx)
               /\ OthersKeepFaces({drag_source.idx})
               /\ score' = Max(0, score + DropBase)
                            + (IF LeftFaceDown(drag_source.idx) THEN 5 ELSE 0)
          ELSE /\ OthersKeepFaces({})
               /\ score' = Max(0, score + DropBase))
     /\ (lastOp' = "double_move" =>
          IF \E j \in TableauIdx : Len(tableaus'[j]) < Len(tableaus[j])
          THEN \E j \in TableauIdx :
                 /\ Len(tableaus'[j]) = Len(tableaus[j]) - 1
                 /\ tableaus'[j] = LeftOf(j)
                 /\ OthersKeepFaces({j})
                 /\ score' = score + 10 + (IF LeftFaceDown(j) THEN 5 ELSE 0)
          ELSE /\ OthersKeepFaces({})
               /\ score' = score + 10)
     /\ (lastOp' = "auto" =>
          /\ \A j \in TableauIdx : tableaus'[j] = LeftOf(j)
          /\ OthersKeepFaces(TableauIdx)
          /\ score' - score - 10 * CardsToFoundations = 5 * CardsUncovered)]_vars
\* a top card dragged off a face-down card onto a foundation: 10 + 5
C16_Witness ==
  /\ lastOp = "drop_move"
  /\ score = pre.score + 15
  /\ \E i \in FoundationIdx : Len(foundations[i]) = Len(pre.foundations[i]) + 1
  /\ \E j \in TableauIdx :
       /\ Len(tableaus[j]) = Len(pre.tableaus[j]) - 1
       /\ tableaus[j] # <<>>
       /\ ~pre.tableaus[j][Len(tableaus[j])].face_up
       /\ Last(tableaus[j]).face_up

\* the foundation rule, on a foundation's cards and a card
Accepts(f, c) ==
  IF f = <<>> THEN c.rank = "A"
  ELSE c.suit = Last(f).suit /\ value(c) = value(Last(f)) + 1
\* no top card of the waste or of a tableau can go to a foundation
NoFoundationMove ==
  /\ waste # <<>> => \A i \in FoundationIdx : ~Accepts(foundations[i], Last(waste))
  /\ \A j \in TableauIdx : tableaus[j] # <<>> =>
        \A i \in FoundationIdx : ~Accepts(foundations[i], Last(tableaus[j]))
SuitRank(c) == <<c.suit, c.rank>>

\* C19: auto-complete ends in every reachable state (every pass but its last
\* puts a card on a foundation, and no foundation ever holds more than 13),
\* and when it has ended no top card of the waste or of a tableau is
\* accepted by a foundation.  What it did is a series of single top cards of the waste
\* and the tableaus put each on a foundation that accepted it: the stock is
\* untouched, the waste and every tableau lost cards from their tops only,
\* every foundation gained a chain of accepted cards, the cards gained are
\* the cards lost, and the score rose by 10 for every card moved plus 5 for
\* every face-down tableau card uncovered.
C19_AutoCompleteExhausts ==
  /\ [](\A i \in FoundationIdx : Len(foundations[i]) <= FOUNDATION_FULL)
  /\ [](lastOp = "auto" => NoFoundationMove)
  /\ [][(lastOp' = "auto") =>
          /\ stock' = stock
          /\ Len(waste') <= Len(waste)
          /\ waste' = SubSeq(waste, 1, Len(waste'))
          /\ \A j \in TableauIdx :
                /\ Len(tableaus'[j]) <= Len(tableaus[j])
                /\ \A m \in 1..Len(tableaus'[j]) :
                      SuitRank(tableaus'[j][m]) = SuitRank(tableaus[j][m])
          /\ \A i \in FoundationIdx :
                /\ Len(foundations'[i]) >= Len(foundations[i])
                /\ SubSeq(foundations'[i], 1, Len(foundations[i])) = foundations[i]
                /\ \A m \in (Len(foundations[i]) + 1)..Len(foundations'[i]) :
                      Accepts(SubSeq(foundations'[i], 1, m - 1), foundations'[i][m])
          /\ CardsToFoundations = CardsTaken
          /\ UNION {{SuitRank(foundations'[i][m]) :
                       m \in (Len(foundations[i]) + 1)..Len(foundations'[i])} :
                     i \in FoundationIdx}
             = {SuitRank(waste[m]) : m \in (Len(waste') + 1)..Len(waste)}
               \cup UNION {{SuitRank(tableaus[j][m]) :
                              m \in (Len(tableaus'[j]) + 1)..Len(tableaus[j])} :
                            j \in TableauIdx}
          /\ score' = score + 10 * CardsToFoundations + 5 * CardsUncovered]_vars
\* an auto-complete that moved several cards, uncovered a face-down card
\* and stopped short of a full set of foundations
C19_Witness ==
  /\ lastOp = "auto"
  /\ NoFoundationMove
  /\ ~Complete
  /\ \E i \in FoundationIdx : Len(foundations[i]) >= Len(pre.foundations[i]) + 2
  /\ \E j \in TableauIdx :
       /\ Len(tableaus[j]) < Len(pre.tableaus[j])
       /\ tableaus[j] # <<>>
       /\ ~pre.tableaus[j][Len(tableaus[j])].face_up
  /\ score > pre.score

\* C18: auto-complete pushes exactly one snapshot, of the game before its
\* first sub-move, however many cards it moves; an undo right after it
\* restores every pile and the score to what they were before the whole
\* auto-complete.
C18_AutoCompleteOneSnapshot ==
  [][/\ (lastOp' = "auto" => move_history' = OnePush(move_history))
     /\ ((lastOp = "auto" /\ lastOp' = "undo") =>
          /\ stock' = pre.stock
          /\ waste' = pre.waste
          /\ foundations' = pre.foundations
          /\ tableaus' = pre.tableaus
          /\ score' = pre.score
          /\ move_history' = Front(move_history))]_vars
\* an undo right after an auto-complete that had moved at least two cards
C18_Witness ==
  /\ lastOp = "undo"
  /\ pre.op = "auto"
  /\ SeqSum([i \in FoundationIdx |-> Len(pre.foundations[i]) - Len(foundations[i])]) >= 2
  /\ score < pre.score
  /\ Len(move_history) = pre.depth - 1

\* C20: no move puts more than one card on a foundation: an executed drop
\* or double-click move adds at most one card to the foundations, and a
\* released run of two or more cards leaves every foundation as it was,
\* also over a foundation that accepts its first card; it lands on a
\* tableau or is rejected.  (The single sub-moves of auto-complete: C19.)
C20_OneCardPerFoundationMove ==
  [][/\ (lastOp' \in {"drop_move", "double_move"} => CardsToFoundations <= 1)
     /\ ((lastOp' \in {"drop_move", "drop_reject"} /\ Len(dragged_cards) >= 2) =>
          /\ foundations' = foundations
          /\ (lastOp' = "drop_move" => DestKind = "tableau"))]_vars
\* a run of two cards, the first of them accepted by a foundation, was
\* released and no foundation took it
C20_Witness ==
  /\ lastOp = "drop_reject"
  /\ pre.op = "start_drag"
  /\ foundations = pre.foundations
  /\ \E j \in TableauIdx : \E m \in 1..(Len(tableaus[j]) - 1) :
       /\ tableaus[j][m].face_up
       /\ \E i \in FoundationIdx : Accepts(foundations[i], tableaus[j][m])

\* the piles a drag can take cards from or put cards on
DragPiles ==
  {WasteRef} \cup {FoundationRef(i) : i \in FoundationIdx}
  \cup {TableauRef(j) : j \in TableauIdx}
\* pile p without its top n cards, the card then on top turned face-up
WithoutTop(cs, n) ==
  IF Len(cs) > n /\ ~cs[Len(cs) - n].face_up
  THEN [SubSeq(cs, 1, Len(cs) - n) EXCEPT ![Len(cs) - n].face_up = TRUE]
  ELSE SubSeq(cs, 1, Len(cs) - n)

\* C21: whenever a release executes a move, the cards captured at the press
\* are at that moment the top cards of the source pile, in the same order,
\* and the move takes exactly those cards off the source and appends exactly
\* those cards, in that order, to one other pile, whatever events came
\* between the press and the release.
C21_DropMovesCapturedRun ==
  [][(lastOp' = "drop_move") =>
       /\ drag_alive
       /\ Len(dragged_cards) <= Len(cards(G, drag_source))
       /\ dragged_cards =
            SubSeq(cards(G, drag_source),
                   Len(cards(G, drag_source)) - Len(dragged_cards) + 1,
                   Len(cards(G, drag_source)))
       /\ cards(G', drag_source) =
            (IF drag_source.kind = "tableau"
             THEN WithoutTop(cards(G, drag_source), Len(dragged_cards))
             ELSE SubSeq(cards(G, drag_source), 1,
                         Len(cards(G, drag_source)) - Len(dragged_cards)))
       /\ \E d \in DragPiles \ {drag_source} :
            /\ cards(G', d) = cards(G, d) \o dragged_cards
            /\ \A p \in DragPiles \ {drag_source, d} : cards(G', p) = cards(G, p)
       /\ stock' = stock]_vars

\* C22: a press that starts a drag and every pointer motion during a drag
\* leave the game as it was: every pile holds the same cards in the same
\* order with the same faces, and the score, the win flag and the undo
\* history are unchanged; the press only opens the drag session, on the top
\* card of a waste or foundation pile or on the pressed tableau card and
\* every card above it.
C22_DragKeepsGame ==
  [][/\ (lastOp' \in {"start_drag", "drag"} =>
          /\ stock' = stock
          /\ waste' = waste
          /\ foundations' = foundations
          /\ tableaus' = tableaus
          /\ score' = score
          /\ won' = won
          /\ move_history' = move_history)
     /\ (lastOp' = "start_drag" =>
          /\ dragging'
          /\ dragged_cards' # <<>>
          /\ Len(dragged_cards') <= Len(cards(G, drag_source'))
          /\ dragged_cards' =
               SubSeq(cards(G, drag_source'),
                      Len(cards(G, drag_source')) - Len(dragged_cards') + 1,
                      Len(cards(G, drag_source')))
          /\ (drag_source'.kind # "tableau" => Len(dragged_cards') = 1))
     /\ (lastOp' = "drag" =>
          /\ dragging' = dragging
          /\ dragged_cards' = dragged_cards
          /\ drag_source' = drag_source)]_vars
\* the pointer moved after a press on a tableau run of two cards
C22_Witness ==
  /\ lastOp = "drag"
  /\ pre.op = "start_drag"
  /\ dragging
  /\ drag_source.kind = "tableau"
  /\ Len(dragged_cards) >= 2
  /\ tableaus = pre.tableaus

\* the piles a double-click can fall on, and those it can move a card from
ClickPiles ==
  {NoPile, StockRef, WasteRef} \cup {FoundationRef(i) : i \in FoundationIdx}
  \cup {TableauRef(j) : j \in TableauIdx}
Movable(p) ==
  /\ p.kind \in {"waste", "tableau"}
  /\ cards(G, p) # <<>>
  /\ \E i \in FoundationIdx : Accepts(foundations[i], Last(cards(G, p)))
\* the lowest-indexed foundation that accepts card c
FirstAccepting(c) ==
  CHOOSE i \in FoundationIdx :
    /\ Accepts(foundations[i], c)
    /\ \A n \in 1..(i - 1) : ~Accepts(foundations[n], c)
\* the game the claim describes after a double-click on a movable pile p
AfterDoubleClick(p) ==
  LET c == Last(cards(G, p))
      i == FirstAccepting(c)
      flips == p.kind = "tableau" /\ Len(cards(G, p)) > 1
               /\ ~cards(G, p)[Len(cards(G, p)) - 1].face_up
      fs == [foundations EXCEPT ![i] = Append(@, c)]
  IN [G EXCEPT !.waste = IF p.kind = "waste" THEN Front(waste) ELSE waste,
               !.tableaus = IF p.kind = "tableau"
                            THEN [tableaus EXCEPT ![p.idx] = WithoutTop(@, 1)]
                            ELSE tableaus,
               !.foundations = fs,
               !.move_history = OnePush(move_history),
               !.score = score + 10 + (IF flips THEN 5 ELSE 0),
               !.won = won \/ \A n \in FoundationIdx : Len(fs[n]) = FOUNDATION_FULL]

\* C23: a double-click on the waste or on a tableau whose top card some
\* foundation accepts moves that top card, and no other, to the
\* lowest-indexed accepting foundation, pushes one snapshot of the game
\* before the move, adds 10, turns a face-down card left on top of a tableau
\* source for 5 more, and sets the win flag when the foundations are then
\* complete; a double-click anywhere else, or on a top card no foundation
\* accepts, changes nothing and pushes nothing.  Checked for the
\* double-click on every pile in every state reached, and for every
\* double-click step taken.
C23_DoubleClickMovesTop ==
  /\ [](\A p \in ClickPiles :
          IF Movable(p) THEN double_click(G, p) = AfterDoubleClick(p)
          ELSE double_click(G, p) = G)
  /\ [][/\ (lastOp' = "double_move" =>
              \E p \in ClickPiles : Movable(p) /\ G' = AfterDoubleClick(p))
         /\ (lastOp' = "double_none" => G' = G)]_vars
\* a double-click moved the top card of a tableau and turned the card under it
C23_Witness ==
  /\ lastOp = "double_move"
  /\ score = pre.score + 15
  /\ Len(move_history) = pre.depth + 1
  /\ \E j \in TableauIdx :
       /\ Len(tableaus[j]) = Len(pre.tableaus[j]) - 1
       /\ tableaus[j] # <<>>
       /\ Last(tableaus[j]).face_up
       /\ ~pre.tableaus[j][Len(tableaus[j])].face_up

\* the face flags of a pile, bottom to top
Faces(cs) == [m \in 1..Len(cs) |-> cs[m].face_up]
\* the face-down cards of a pile lie under all its face-up cards
FaceDownPrefix(cs) ==
  \A m \in 1..Len(cs) : \A n \in 1..Len(cs) :
     (m < n /\ cs[m].face_up) => cs[n].face_up

\* C24: between input events every stock card is face-down, every waste
\* card and every foundation card is face-up, in each tableau no face-down
\* card lies above a face-up card and the top card of a non-empty tableau is
\* face-up; the cards of a drag in progress, the only cards a drop moves,
\* are face-up.
C24_FaceOrientation ==
  /\ \A m \in 1..Len(stock) : ~stock[m].face_up
  /\ \A m \in 1..Len(waste) : waste[m].face_up
  /\ \A i \in FoundationIdx : \A m \in 1..Len(foundations[i]) :
        foundations[i][m].face_up
  /\ \A j \in TableauIdx :
        /\ FaceDownPrefix(tableaus[j])
        /\ tableaus[j] # <<>> => Last(tableaus[j]).face_up
  /\ \A m \in 1..Len(dragged_cards) : dragged_cards[m].face_up
\* after a draw, a move took the top card off a tableau and the face-down
\* card under it was turned
C24_Witness ==
  /\ lastOp \in {"drop_move", "double_move"}
  /\ stock # <<>>
  /\ waste # <<>>
  /\ \E i \in FoundationIdx : foundations[i] # <<>>
  /\ \E j \in TableauIdx :
       /\ Len(tableaus[j]) >= 2
       /\ Len(tableaus[j]) < Len(pre.tableaus[j])
       /\ Faces(pre.tableaus[j])[Len(tableaus[j])] = FALSE
       /\ Faces(tableaus[j])[Len(tableaus[j])] = TRUE
       /\ Faces(tableaus[j])[Len(tableaus[j]) - 1] = FALSE

\* pile f holds, bottom to top, the ace, the 2, ... of one suit
BuiltUp(f) ==
  \A m \in 1..Len(f) : f[m].suit = f[1].suit /\ f[m].rank = RANKS[m]

\* C25: in every reachable state each non-empty foundation holds, bottom to
\* top, the cards ace, 2, ..., n of one suit, with no gap and no repeat and
\* n at most 13, and no two non-empty foundations hold the same suit.
C25_FoundationsBuiltUp ==
  /\ \A i \in FoundationIdx :
        Len(foundations[i]) <= FOUNDATION_FULL /\ BuiltUp(foundations[i])
  /\ \A i \in FoundationIdx : \A n \in FoundationIdx :
        (i # n /\ foundations[i] # <<>> /\ foundations[n] # <<>>)
          => foundations[i][1].suit # foundations[n][1].suit

\* wherever two face-up cards of cs lie one on the other, the upper one has
\* the other colour and the value one less
Chain(cs) ==
  \A m \in 2..Len(cs) :
     (cs[m - 1].face_up /\ cs[m].face_up) =>
        /\ color(cs[m]) # color(cs[m - 1])
        /\ value(cs[m]) = value(cs[m - 1]) - 1

\* C26: in every reachable state the face-up cards of each tableau form,
\* bottom to top, a chain in which each card has the other colour than, and
\* a value one less than, the face-up card directly under it; so the run a
\* press picks up from a tableau, a face-up card and every card above it,
\* is such a chain.
C26_TableauChains ==
  /\ \A j \in TableauIdx : Chain(tableaus[j])
  /\ (lastOp = "start_drag" /\ drag_source.kind = "tableau") =>
       /\ \A m \in 1..Len(dragged_cards) : dragged_cards[m].face_up
       /\ Chain(dragged_cards)
\* a run of two cards was dropped on another tableau: three face-up cards
\* lie in a chain
C26_Witness ==
  /\ lastOp = "drop_move"
  /\ \E j \in TableauIdx :
       /\ Len(tableaus[j]) = Len(pre.tableaus[j]) + 2
       /\ \A m \in (Len(tableaus[j]) - 2)..Len(tableaus[j]) : tableaus[j][m].face_up
====
